---- MODULE Spec2Model ----
(***************************************************************************)
(* A model of the correction core of the Autocorrect tool:                 *)
(*   - CorrectionEngine (src/utils/correction_engine.py): the four-stage   *)
(*     pipeline correct_text and its stages;                               *)
(*   - TextProcessor (src/utils/text_processor.py): find_differences, the  *)
(*     classification of a correction, its confidence and _edit_distance.  *)
(* A text is a sequence of one-character strings.  A confidence of the     *)
(* engine is an integer number of hundredths (0.8 is 80); a confidence of  *)
(* the diff engine is an exact fraction <<numerator, denominator>>.        *)
(***************************************************************************)
EXTENDS Naturals, Integers, Sequences, FiniteSets, TLC

VARIABLES
    pc,                   \* the position of the operation under way
    text,                 \* correct_text: the text passed in
    correction_types,     \* correct_text: the list of stage names passed in
    confidence_threshold, \* correct_text: the threshold passed in (hundredths)
    blob,                 \* which behaviour the external TextBlob corrector has
    corrected_text,       \* correct_text: local corrected_text
    suggestions,          \* correct_text: local suggestions
    calls,                \* history: one record per stage that ran
    original,             \* find_differences / _classify_correction: original
    corrected,            \* find_differences / _classify_correction: corrected
    differences,          \* the value an operation of TextProcessor returned
    s1, s2, s3,           \* _edit_distance: the strings compared
    dist,                 \* _edit_distance: the distances returned
    returned,             \* the value a helper or a metrics function returned
    session_state         \* app.py: st.session_state

vars == <<pc, text, correction_types, confidence_threshold, blob, corrected_text,
          suggestions, calls, original, corrected, differences, s1, s2, s3, dist,
          returned, session_state>>

engineVars == <<text, correction_types, confidence_threshold, blob, corrected_text,
                suggestions, calls>>
processorVars == <<original, corrected, differences>>
distanceVars == <<s1, s2, s3, dist>>
appVars == <<returned, session_state>>

-----------------------------------------------------------------------------
(* Characters and the str methods the code uses.                           *)

LowerLetters == <<"a","b","c","d","e","f","g","h","i","j","k","l","m",
                  "n","o","p","q","r","s","t","u","v","w","x","y","z">>
UpperLetters == <<"A","B","C","D","E","F","G","H","I","J","K","L","M",
                  "N","O","P","Q","R","S","T","U","V","W","X","Y","Z">>
DigitChars == <<"0","1","2","3","4","5","6","7","8","9">>

Range(f) == {f[i] : i \in DOMAIN f}

\* the element of a set of one element
The(S) == CHOOSE x \in S : TRUE

LowerSet == Range(LowerLetters)
UpperSet == Range(UpperLetters)
WordCharSet == LowerSet \cup UpperSet \cup Range(DigitChars) \cup {"_"}
SpaceSet == {" ", "\t", "\n"}

\* str.islower / str.isupper / str.isalpha of one character
IsLower(c) == c \in LowerSet
IsUpper(c) == c \in UpperSet
IsAlpha(c) == IsLower(c) \/ IsUpper(c)
\* the class \w of re: letters, digits and the underscore
IsWordChar(c) == c \in WordCharSet
\* the class \s of re, and the characters str.split() and str.strip() drop
IsSpace(c) == c \in SpaceSet

LowerOf == [c \in UpperSet |-> LowerLetters[CHOOSE i \in 1..26 : UpperLetters[i] = c]]
UpperOf == [c \in LowerSet |-> UpperLetters[CHOOSE i \in 1..26 : LowerLetters[i] = c]]

\* str.lower() / str.upper() of one character
LowerChar(c) == IF IsUpper(c) THEN LowerOf[c] ELSE c
UpperChar(c) == IF IsLower(c) THEN UpperOf[c] ELSE c

\* str.lower()
Lower(s) == [i \in 1..Len(s) |-> LowerChar(s[i])]

Min(a, b) == IF a < b THEN a ELSE b
Max(a, b) == IF a > b THEN a ELSE b

\* the first index >= pos of s whose character is not whitespace, Len(s)+1 if none
SkipSpaces(s, pos) ==
    CHOOSE i \in pos..(Len(s) + 1) :
        /\ (i = Len(s) + 1 \/ ~IsSpace(s[i]))
        /\ \A j \in pos..(i - 1) : IsSpace(s[j])

\* the first index >= pos of s whose character is whitespace, Len(s)+1 if none
SkipToken(s, pos) ==
    CHOOSE i \in pos..(Len(s) + 1) :
        /\ (i = Len(s) + 1 \/ IsSpace(s[i]))
        /\ \A j \in pos..(i - 1) : ~IsSpace(s[j])

\* the indices 1..n in increasing order
Indices(n) == [i \in 1..n |-> i]

\* str.split(): the maximal runs of non-whitespace characters, in order
Split(s) ==
    LET starts == SelectSeq(Indices(Len(s)),
                            LAMBDA i : ~IsSpace(s[i]) /\ (i = 1 \/ IsSpace(s[i - 1])))
    IN  [k \in 1..Len(starts) |-> SubSeq(s, starts[k], SkipToken(s, starts[k]) - 1)]

\* ' '.join(words)
RECURSIVE Join(_)
Join(words) ==
    IF words = <<>> THEN <<>>
    ELSE IF Len(words) = 1 THEN words[1]
    ELSE words[1] \o <<" ">> \o Join(Tail(words))

\* str.strip()
Strip(s) ==
    LET b == SkipSpaces(s, 1)
        e == CHOOSE i \in 0..Len(s) :
                 /\ (i = 0 \/ ~IsSpace(s[i]))
                 /\ \A j \in (i + 1)..Len(s) : IsSpace(s[j])
    IN  IF b > Len(s) THEN <<>> ELSE SubSeq(s, b, e)

\* str.startswith(prefix)
StartsWith(s, prefix) ==
    /\ Len(s) >= Len(prefix)
    /\ SubSeq(s, 1, Len(prefix)) = prefix

RECURSIVE Flatten(_)
Flatten(parts) ==
    IF parts = <<>> THEN <<>> ELSE parts[1] \o Flatten(Tail(parts))

-----------------------------------------------------------------------------
(* Words of the rule tables and of the dictionary.                         *)

Word ==
    [ i |-> <<"i">>,
      I |-> <<"I">>,
      a |-> <<"a">>,
      teh |-> <<"t","e","h">>,
      the |-> <<"t","h","e">>,
      and |-> <<"a","n","d">>,
      is |-> <<"i","s">>,
      are |-> <<"a","r","e">>,
      very |-> <<"v","e","r","y">>,
      good |-> <<"g","o","o","d">>,
      big |-> <<"b","i","g">>,
      small |-> <<"s","m","a","l","l">>,
      lot |-> <<"l","o","t">>,
      of |-> <<"o","f">>,
      extremely |-> <<"e","x","t","r","e","m","e","l","y">>,
      excellent |-> <<"e","x","c","e","l","l","e","n","t">>,
      enormous |-> <<"e","n","o","r","m","o","u","s">>,
      tiny |-> <<"t","i","n","y">>,
      many |-> <<"m","a","n","y">>,
      cat |-> <<"c","a","t">>,
      catt |-> <<"c","a","t","t">>,
      helo |-> <<"h","e","l","o">>,
      hello |-> <<"h","e","l","l","o">> ]

-----------------------------------------------------------------------------
(* The regular expressions of the engine.  Every compiled pattern of the   *)
(* rule tables is \b w1 \s+ w2 ... \s+ wn \b with re.IGNORECASE: a pattern *)
(* is the sequence <<w1, ..., wn>> of its lower-case words.                *)

\* the literal word w matches s at pos, ignoring case
MatchWord(w, s, pos) ==
    /\ pos + Len(w) - 1 <= Len(s)
    /\ \A k \in 1..Len(w) : LowerChar(s[pos + k - 1]) = w[k]

\* words k.. of pattern pat match s from pos: the index of the last character
\* matched, 0 when there is no match.  \s+ is greedy and the next word starts
\* with a word character, so a match takes the whole run of whitespace.
RECURSIVE MatchWords(_, _, _, _)
MatchWords(pat, k, s, pos) ==
    LET e == pos + Len(pat[k]) - 1
        n == SkipSpaces(s, e + 1)
    IN  IF ~MatchWord(pat[k], s, pos) THEN 0
        ELSE IF k = Len(pat)
             THEN IF e = Len(s) \/ ~IsWordChar(s[e + 1]) THEN e ELSE 0
        ELSE IF n = e + 1 \/ n > Len(s) THEN 0
        ELSE MatchWords(pat, k + 1, s, n)

\* pattern.match at pos: \b, the words, \b
MatchAt(pat, s, pos) ==
    IF pos > 1 /\ IsWordChar(s[pos - 1]) THEN 0 ELSE MatchWords(pat, 1, s, pos)

\* pattern.search(s)
Search(pat, s) == \E pos \in 1..Len(s) : MatchAt(pat, s, pos) > 0

\* pattern.sub(repl, s): the leftmost non-overlapping matches, left to right
RECURSIVE SubFrom(_, _, _, _)
SubFrom(pat, repl, s, pos) ==
    LET e == MatchAt(pat, s, pos)
    IN  IF pos > Len(s) THEN <<>>
        ELSE IF e > 0 THEN repl \o SubFrom(pat, repl, s, e + 1)
        ELSE <<s[pos]>> \o SubFrom(pat, repl, s, pos + 1)

Sub(pat, repl, s) == SubFrom(pat, repl, s, 1)

\* _load_grammar_rules
grammar_rules == <<
    [pattern |-> <<Word.i>>, replacement |-> Word.I, confidence |-> 95],
    [pattern |-> <<Word.teh>>, replacement |-> Word.the, confidence |-> 90],
    [pattern |-> <<Word.and, Word.and>>, replacement |-> Word.and, confidence |-> 90],
    [pattern |-> <<Word.the, Word.the>>, replacement |-> Word.the, confidence |-> 90],
    [pattern |-> <<Word.is, Word.are>>, replacement |-> Word.are, confidence |-> 80] >>

\* a faulty table whose pattern for "good good" has a confidence of 0.6
fluency_patterns_GoodBelow == <<
    [pattern |-> <<Word.very, Word.very>>, replacement |-> Word.extremely, confidence |-> 80],
    [pattern |-> <<Word.good, Word.good>>, replacement |-> Word.excellent, confidence |-> 60],
    [pattern |-> <<Word.big, Word.big>>, replacement |-> Word.enormous, confidence |-> 70],
    [pattern |-> <<Word.small, Word.small>>, replacement |-> Word.tiny, confidence |-> 70],
    [pattern |-> <<Word.a, Word.lot, Word.of>>, replacement |-> Word.many, confidence |-> 75] >>

\* _load_fluency_patterns
fluency_patterns == <<
    [pattern |-> <<Word.very, Word.very>>, replacement |-> Word.extremely, confidence |-> 80],
    [pattern |-> <<Word.good, Word.good>>, replacement |-> Word.excellent, confidence |-> 70],
    [pattern |-> <<Word.big, Word.big>>, replacement |-> Word.enormous, confidence |-> 70],
    [pattern |-> <<Word.small, Word.small>>, replacement |-> Word.tiny, confidence |-> 70],
    [pattern |-> <<Word.a, Word.lot, Word.of>>, replacement |-> Word.many, confidence |-> 75] >>

Suggestion(o, c, t, conf) ==
    [original |-> o, corrected |-> c, type |-> t, confidence |-> conf]

-----------------------------------------------------------------------------
(* The dictionary speller: spellchecker.SpellChecker, an external library. *)
(* It is modelled by a small dictionary and the correction it returns for  *)
(* each unknown word it can correct.                                       *)

KnownWords == {Word.i, Word.a, Word.the, Word.and, Word.is, Word.are, Word.very, Word.good, Word.big, Word.small,
               Word.lot, Word.of, Word.cat, Word.hello, Word.many, Word.tiny, Word.enormous,
               Word.excellent, Word.extremely}

SpellTable == {<<Word.teh, Word.the>>, <<Word.helo, Word.hello>>, <<Word.catt, Word.cat>>}

\* clean_word in self.spell_checker
IsKnown(w) == w \in KnownWords

\* self.spell_checker.correction(clean_word); <<>> stands for no correction
Correction(w) ==
    IF \E p \in SpellTable : p[1] = w
    THEN (CHOOSE p \in SpellTable : p[1] = w)[2]
    ELSE <<>>

\* re.sub(r'[^\w]', '', word.lower())
RECURSIVE KeepWordChars(_)
KeepWordChars(s) ==
    IF s = <<>> THEN <<>>
    ELSE (IF IsWordChar(s[1]) THEN <<s[1]>> ELSE <<>>) \o KeepWordChars(Tail(s))

CleanWord(word) == KeepWordChars(Lower(word))

\* the loop of _preserve_case_and_punct: k is the position in original, i the
\* position in corrected_lower (from 1), result the string built so far
RECURSIVE PreserveLoop(_, _, _, _, _)
PreserveLoop(orig, cl, k, i, result) ==
    IF k > Len(orig)
    THEN IF i <= Len(cl) THEN result \o SubSeq(cl, i, Len(cl)) ELSE result
    ELSE IF IsAlpha(orig[k]) /\ i <= Len(cl)
         THEN PreserveLoop(orig, cl, k + 1, i + 1,
                  Append(result, IF IsUpper(orig[k]) THEN UpperChar(cl[i]) ELSE cl[i]))
    ELSE IF ~IsAlpha(orig[k])
         THEN PreserveLoop(orig, cl, k + 1, i, Append(result, orig[k]))
    ELSE PreserveLoop(orig, cl, k + 1, i, result)

\* _preserve_case_and_punct
PreserveCaseAndPunct(orig, corr) ==
    IF orig = <<>> \/ corr = <<>> THEN corr
    ELSE PreserveLoop(orig, Lower(corr), 1, 1, <<>>)

\* the body of the loop of _correct_spelling for one word: the word appended to
\* corrected_words
SpellWord(word) ==
    LET clean_word == CleanWord(word)
        correction == Correction(clean_word)
    IN  IF clean_word # <<>> /\ ~IsKnown(clean_word)
           /\ correction # <<>> /\ correction # clean_word
        THEN PreserveCaseAndPunct(word, correction)
        ELSE word

\* the suggestions of _correct_spelling for the words from k on
RECURSIVE SpellSuggestions(_, _)
SpellSuggestions(words, k) ==
    IF k > Len(words) THEN <<>>
    ELSE LET clean_word == CleanWord(words[k])
             correction == Correction(clean_word)
         IN  (IF clean_word # <<>> /\ ~IsKnown(clean_word)
                 /\ correction # <<>> /\ correction # clean_word
              THEN <<Suggestion(words[k], PreserveCaseAndPunct(words[k], correction),
                                "spelling", 80)>>
              ELSE <<>>) \o SpellSuggestions(words, k + 1)

\* _correct_spelling: the threshold is not used
CorrectSpelling(t, threshold) ==
    LET words == Split(t)
        corrected_words == [k \in 1..Len(words) |-> SpellWord(words[k])]
    IN  [text |-> Join(corrected_words), suggestions |-> SpellSuggestions(words, 1)]

-----------------------------------------------------------------------------
(* The grammar stage.  TextBlob(text).correct() is an external corrector:  *)
(* the variable blob says which of two behaviours it has, the identity or  *)
(* a per-word dictionary correction that keeps a leading capital.          *)

BlobKinds == {"identity", "speller"}

\* the first index >= pos of s whose character is not a word character
SkipWord(s, pos) ==
    CHOOSE i \in pos..(Len(s) + 1) :
        /\ (i = Len(s) + 1 \/ ~IsWordChar(s[i]))
        /\ \A j \in pos..(i - 1) : IsWordChar(s[j])

\* str.istitle() of one word
IsTitle(w) ==
    /\ w # <<>>
    /\ IsUpper(w[1])
    /\ \A k \in 2..Len(w) : ~IsUpper(w[k])

\* Word(w).correct(): the dictionary's best suggestion for w
BlobWord(w) ==
    LET c == Correction(Lower(w))
    IN  IF c = <<>> THEN w
        ELSE IF IsTitle(w) THEN <<UpperChar(c[1])>> \o Tail(c)
        ELSE c

RECURSIVE BlobFrom(_, _)
BlobFrom(s, pos) ==
    LET e == SkipWord(s, pos)
    IN  IF pos > Len(s) THEN <<>>
        ELSE IF e > pos THEN BlobWord(SubSeq(s, pos, e - 1)) \o BlobFrom(s, e)
        ELSE <<s[pos]>> \o BlobFrom(s, pos + 1)

\* str(TextBlob(text).correct())
BlobCorrect(kind, t) == IF kind = "identity" THEN t ELSE BlobFrom(t, 1)

\* the loop over self.grammar_rules, from rule k on: st is
\* [text |-> corrected_text, suggestions |-> suggestions]
RECURSIVE GrammarLoop(_, _)
GrammarLoop(st, k) ==
    IF k > Len(grammar_rules) THEN st
    ELSE LET rule == grammar_rules[k]
             old_text == st.text
             new_text == Sub(rule.pattern, rule.replacement, old_text)
         IN  IF Search(rule.pattern, old_text)
             THEN GrammarLoop(
                    [text |-> new_text,
                     suggestions |->
                        IF new_text # old_text
                        THEN Append(st.suggestions,
                                 Suggestion(old_text, new_text, "grammar", rule.confidence))
                        ELSE st.suggestions],
                    k + 1)
             ELSE GrammarLoop(st, k + 1)

\* _correct_grammar: the threshold is not used
CorrectGrammar(kind, t, threshold) ==
    LET blob_text == BlobCorrect(kind, t)
    IN  GrammarLoop(
            [text |-> blob_text,
             suggestions |-> IF blob_text # t
                             THEN <<Suggestion(t, blob_text, "grammar", 75)>>
                             ELSE <<>>],
            1)

-----------------------------------------------------------------------------
(* The punctuation stage.                                                  *)

PunctMarks == {".", "!", "?", ",", ":", ";"}
SentenceEnds == {".", "!", "?"}

\* re.search(r'([.!?,:;])([A-Za-z])', s)
SearchMissingSpace(s) ==
    \E i \in 1..(Len(s) - 1) : s[i] \in PunctMarks /\ IsAlpha(s[i + 1])

\* re.sub(r'([.!?,:;])([A-Za-z])', r'\1 \2', s)
RECURSIVE SubMissingSpace(_, _)
SubMissingSpace(s, pos) ==
    IF pos > Len(s) THEN <<>>
    ELSE IF pos < Len(s) /\ s[pos] \in PunctMarks /\ IsAlpha(s[pos + 1])
         THEN <<s[pos], " ", s[pos + 1]>> \o SubMissingSpace(s, pos + 2)
    ELSE <<s[pos]>> \o SubMissingSpace(s, pos + 1)

\* re.search(r'\s{2,}', s)
SearchSpaces(s) ==
    \E i \in 1..(Len(s) - 1) : IsSpace(s[i]) /\ IsSpace(s[i + 1])

\* a faulty re.sub for the pattern \s{2}: every pair of whitespace characters
\* becomes one space
RECURSIVE SubSpaces_Pairs(_, _)
SubSpaces_Pairs(s, pos) ==
    IF pos > Len(s) THEN <<>>
    ELSE IF pos < Len(s) /\ IsSpace(s[pos]) /\ IsSpace(s[pos + 1])
         THEN <<" ">> \o SubSpaces_Pairs(s, pos + 2)
    ELSE <<s[pos]>> \o SubSpaces_Pairs(s, pos + 1)

\* re.sub(r'\s{2,}', ' ', s)
RECURSIVE SubSpaces(_, _)
SubSpaces(s, pos) ==
    LET e == SkipSpaces(s, pos)
    IN  IF pos > Len(s) THEN <<>>
        ELSE IF e >= pos + 2 THEN <<" ">> \o SubSpaces(s, e)
        ELSE <<s[pos]>> \o SubSpaces(s, pos + 1)

\* corrected_text.strip().endswith(('.', '!', '?'))
EndsSentence(s) ==
    LET t == Strip(s) IN t # <<>> /\ t[Len(t)] \in SentenceEnds

\* _correct_punctuation: the threshold is not used
CorrectPunctuation(t, threshold) ==
    LET t1 == IF SearchMissingSpace(t) THEN SubMissingSpace(t, 1) ELSE t
        g1 == IF SearchMissingSpace(t)
              THEN <<Suggestion(t, t1, "punctuation", 90)>> ELSE <<>>
        t2 == IF SearchSpaces(t1) THEN SubSpaces(t1, 1) ELSE t1
        g2 == IF SearchSpaces(t1)
              THEN Append(g1, Suggestion(t1, t2, "punctuation", 95)) ELSE g1
        t3 == IF t2 # <<>> /\ ~EndsSentence(t2) THEN Append(Strip(t2), ".") ELSE t2
        g3 == IF t2 # <<>> /\ ~EndsSentence(t2)
              THEN Append(g2, Suggestion(t2, t3, "punctuation", 80)) ELSE g2
    IN  [text |-> t3, suggestions |-> g3]

-----------------------------------------------------------------------------
(* The fluency stage.                                                      *)

\* a faulty loop that lets a pattern rewrite the text only when its confidence
\* is at least the threshold
RECURSIVE FluencyLoop_GatedText(_, _, _)
FluencyLoop_GatedText(st, threshold, k) ==
    IF k > Len(fluency_patterns) THEN st
    ELSE LET pattern == fluency_patterns[k]
             old_text == st.text
             new_text == Sub(pattern.pattern, pattern.replacement, old_text)
         IN  IF Search(pattern.pattern, old_text) /\ pattern.confidence >= threshold
             THEN FluencyLoop_GatedText(
                    [text |-> new_text,
                     suggestions |->
                        IF new_text # old_text
                        THEN Append(st.suggestions,
                                 Suggestion(old_text, new_text, "fluency",
                                            pattern.confidence))
                        ELSE st.suggestions],
                    threshold, k + 1)
             ELSE FluencyLoop_GatedText(st, threshold, k + 1)

\* the loop over self.fluency_patterns, from pattern k on
RECURSIVE FluencyLoop(_, _, _)
FluencyLoop(st, threshold, k) ==
    IF k > Len(fluency_patterns) THEN st
    ELSE LET pattern == fluency_patterns[k]
             old_text == st.text
             new_text == Sub(pattern.pattern, pattern.replacement, old_text)
         IN  IF Search(pattern.pattern, old_text)
             THEN FluencyLoop(
                    [text |-> new_text,
                     suggestions |->
                        IF new_text # old_text /\ pattern.confidence >= threshold
                        THEN Append(st.suggestions,
                                 Suggestion(old_text, new_text, "fluency",
                                            pattern.confidence))
                        ELSE st.suggestions],
                    threshold, k + 1)
             ELSE FluencyLoop(st, threshold, k + 1)

\* a faulty _improve_fluency that records every change, whatever the threshold
ImproveFluency_Ungated(t, threshold) ==
    FluencyLoop([text |-> t, suggestions |-> <<>>], 0, 1)

\* _improve_fluency
ImproveFluency(t, threshold) ==
    FluencyLoop([text |-> t, suggestions |-> <<>>], threshold, 1)

-----------------------------------------------------------------------------
(* TextProcessor: the edit distance, and the type, reason and confidence   *)
(* of a correction.                                                        *)

Min3(a, b, c) == Min(a, Min(b, c))

\* a faulty inner loop that leaves the substitution dp[i-1][j-1] out of the min
RECURSIVE DpRow_NoSubstitution(_, _, _, _, _, _)
DpRow_NoSubstitution(x, y, i, j, prev, cur) ==
    IF j > Len(y) THEN cur
    ELSE DpRow_NoSubstitution(x, y, i, j + 1, prev,
               Append(cur, IF x[i] = y[j] THEN prev[j]
                           ELSE 1 + Min(prev[j + 1], cur[j])))

\* the inner loop of _edit_distance: row i of dp from column j on, given row
\* i-1 (prev) and the columns 0..j-1 of row i (cur); column j is at index j+1
RECURSIVE DpRow(_, _, _, _, _, _)
DpRow(x, y, i, j, prev, cur) ==
    IF j > Len(y) THEN cur
    ELSE DpRow(x, y, i, j + 1, prev,
               Append(cur, IF x[i] = y[j] THEN prev[j]
                           ELSE 1 + Min3(prev[j + 1], cur[j], prev[j])))

\* the outer loop of _edit_distance: row Len(x) of dp, from row i-1 (prev)
RECURSIVE DpRows(_, _, _, _)
DpRows(x, y, i, prev) ==
    IF i > Len(x) THEN prev
    ELSE DpRows(x, y, i + 1, DpRow(x, y, i, 1, prev, <<i>>))

\* _edit_distance: dp[m][n]
EditDistance(x, y) ==
    DpRows(x, y, 1, [j \in 1..(Len(y) + 1) |-> j - 1])[Len(y) + 1]

\* _is_grammar_correction
grammar_indicators == {<<"w","a","s">>, <<"w","e","r","e">>, Word.is, Word.are,
                       <<"h","a","v","e">>, <<"h","a","s">>, <<"h","a","d">>}

IsGrammarCorrection(o, c) ==
    \E word \in grammar_indicators : word \in {Lower(o), Lower(c)}

\* _classify_correction
ClassifyCorrection(o, c) ==
    IF Len(o) # Len(c) THEN "Spelling"
    ELSE IF Lower(o) = Lower(c) THEN "Capitalization"
    ELSE IF IsGrammarCorrection(o, c) THEN "Grammar"
    ELSE "Fluency"

\* _get_correction_reason
GetCorrectionReason(o, c) ==
    IF Lower(o) # Lower(c)
    THEN IF Len(o) > Len(c) THEN "Removed unnecessary characters"
         ELSE IF Len(o) < Len(c) THEN "Added missing characters"
         ELSE "Fixed spelling error"
    ELSE IF o # c THEN "Fixed capitalization"
    ELSE "Improved fluency"

\* a faulty _calculate_confidence without the floor of 0.5
CalculateConfidence_NoFloor(o, c) ==
    LET edit_distance == EditDistance(o, c)
        max_length == Max(Len(o), Len(c))
    IN  IF max_length = 0 THEN <<1, 1>>
        ELSE <<max_length - edit_distance, max_length>>

\* _calculate_confidence: the fraction <<numerator, denominator>>; a
\* denominator of 0 stands for a division by zero
CalculateConfidence(o, c) ==
    LET edit_distance == EditDistance(o, c)
        max_length == Max(Len(o), Len(c))
    IN  IF max_length = 0 THEN <<1, 1>>
        ELSE IF 2 * (max_length - edit_distance) < max_length THEN <<1, 2>>
        ELSE <<max_length - edit_distance, max_length>>

\* the record find_differences appends for a pair of words
DifferenceRecord(o, c) ==
    [original |-> o, corrected |-> c, type |-> ClassifyCorrection(o, c),
     reason |-> GetCorrectionReason(o, c), confidence |-> CalculateConfidence(o, c)]

-----------------------------------------------------------------------------
(* difflib.unified_diff(original.split(), corrected.split(), lineterm=''), *)
(* the standard library's diff that find_differences parses.  a and b are  *)
(* the two token lists; as in difflib, positions count from 0 and a range  *)
(* lo..hi excludes hi: the element at position i of a is a[i + 1].         *)

\* SequenceMatcher: the least length of b for which its popular elements are
\* left out of the index b2j (autojunk)
AutojunkLen == 200

\* the number of context lines of unified_diff (n=3)
ContextLines == 3

\* SequenceMatcher.__chain_b: the elements of b purged from b2j as popular
Popular(b) ==
    IF Len(b) >= AutojunkLen
    THEN {elt \in Range(b) :
             Cardinality({j \in 1..Len(b) : b[j] = elt}) > (Len(b) \div 100) + 1}
    ELSE {}

\* find_longest_match, the value of j2len[j] after row i: the length of the
\* longest block of equal elements, all in b2j, that ends at a[i], b[j] and
\* lies within a[alo..], b[blo..]
RECURSIVE RunLen(_, _, _, _, _, _, _)
RunLen(a, b, pop, alo, blo, i, j) ==
    IF i < alo \/ j < blo THEN 0
    ELSE IF a[i + 1] # b[j + 1] \/ b[j + 1] \in pop THEN 0
    ELSE 1 + RunLen(a, b, pop, alo, blo, i - 1, j - 1)

\* the number of equal pairs a[i-1] = b[j-1], a[i-2] = b[j-2], ... above alo, blo
ExtendBack(a, b, alo, blo, i, j) ==
    CHOOSE e \in 0..Min(i - alo, j - blo) :
        /\ \A t \in 1..e : a[i - t + 1] = b[j - t + 1]
        /\ (e = Min(i - alo, j - blo) \/ a[i - e] # b[j - e])

\* the number of equal pairs a[i] = b[j], a[i+1] = b[j+1], ... below ahi, bhi
ExtendForward(a, b, ahi, bhi, i, j) ==
    CHOOSE e \in 0..Min(ahi - i, bhi - j) :
        /\ \A t \in 0..(e - 1) : a[i + t + 1] = b[j + t + 1]
        /\ (e = Min(ahi - i, bhi - j) \/ a[i + e + 1] # b[j + e + 1])

\* SequenceMatcher.find_longest_match(alo, ahi, blo, bhi) with no junk: the
\* loops keep the first block, in the order of i then j, of the greatest
\* length; it is then extended on both sides by equal elements, popular or not
FindLongestMatch(a, b, pop, alo, ahi, blo, bhi) ==
    LET cand == {p \in (alo..(ahi - 1)) \X (blo..(bhi - 1)) :
                    a[p[1] + 1] = b[p[2] + 1] /\ b[p[2] + 1] \notin pop}
        K(p) == RunLen(a, b, pop, alo, blo, p[1], p[2])
        bestsize == IF cand = {} THEN 0
                    ELSE CHOOSE k \in {K(p) : p \in cand} :
                             \A q \in cand : K(q) <= k
        first == CHOOSE p \in cand :
                     /\ K(p) = bestsize
                     /\ \A q \in cand :
                          K(q) = bestsize =>
                              (p[1] < q[1] \/ (p[1] = q[1] /\ p[2] <= q[2]))
        besti == IF cand = {} THEN alo ELSE first[1] - bestsize + 1
        bestj == IF cand = {} THEN blo ELSE first[2] - bestsize + 1
        back == ExtendBack(a, b, alo, blo, besti, bestj)
        forward == ExtendForward(a, b, ahi, bhi, besti + bestsize, bestj + bestsize)
    IN  <<besti - back, bestj - back, bestsize + back + forward>>

\* get_matching_blocks: the blocks found in a[alo..ahi], b[blo..bhi], sorted
RECURSIVE MatchingBlocks(_, _, _, _, _, _, _)
MatchingBlocks(a, b, pop, alo, ahi, blo, bhi) ==
    LET x == FindLongestMatch(a, b, pop, alo, ahi, blo, bhi)
        i == x[1]
        j == x[2]
        k == x[3]
    IN  IF k = 0 THEN <<>>
        ELSE (IF alo < i /\ blo < j
              THEN MatchingBlocks(a, b, pop, alo, i, blo, j) ELSE <<>>)
             \o <<x>> \o
             (IF i + k < ahi /\ j + k < bhi
              THEN MatchingBlocks(a, b, pop, i + k, ahi, j + k, bhi) ELSE <<>>)

\* get_matching_blocks: adjacent blocks collapsed; cur is <<i1, j1, k1>>
RECURSIVE NonAdjacent(_, _, _)
NonAdjacent(blocks, n, cur) ==
    IF n > Len(blocks)
    THEN IF cur[3] > 0 THEN <<cur>> ELSE <<>>
    ELSE LET x == blocks[n]
         IN  IF cur[1] + cur[3] = x[1] /\ cur[2] + cur[3] = x[2]
             THEN NonAdjacent(blocks, n + 1, <<cur[1], cur[2], cur[3] + x[3]>>)
             ELSE (IF cur[3] > 0 THEN <<cur>> ELSE <<>>)
                  \o NonAdjacent(blocks, n + 1, x)

\* SequenceMatcher(None, a, b).get_matching_blocks()
GetMatchingBlocks(a, b) ==
    Append(NonAdjacent(MatchingBlocks(a, b, Popular(b), 0, Len(a), 0, Len(b)),
                       1, <<0, 0, 0>>),
           <<Len(a), Len(b), 0>>)

Opcode(tag, i1, i2, j1, j2) == [tag |-> tag, i1 |-> i1, i2 |-> i2, j1 |-> j1, j2 |-> j2]

\* the loop of get_opcodes over the matching blocks, from block n on
RECURSIVE OpcodeLoop(_, _, _, _)
OpcodeLoop(blocks, n, i, j) ==
    IF n > Len(blocks) THEN <<>>
    ELSE LET ai == blocks[n][1]
             bj == blocks[n][2]
             size == blocks[n][3]
             tag == IF i < ai /\ j < bj THEN "replace"
                    ELSE IF i < ai THEN "delete"
                    ELSE IF j < bj THEN "insert"
                    ELSE ""
         IN  (IF tag # "" THEN <<Opcode(tag, i, ai, j, bj)>> ELSE <<>>)
             \o (IF size > 0
                 THEN <<Opcode("equal", ai, ai + size, bj, bj + size)>> ELSE <<>>)
             \o OpcodeLoop(blocks, n + 1, ai + size, bj + size)

\* get_opcodes
GetOpcodes(a, b) == OpcodeLoop(GetMatchingBlocks(a, b), 1, 0, 0)

\* get_grouped_opcodes: the leading and the trailing equal opcode cut to n lines
FixupEnds(codes0, n) ==
    LET codes == IF codes0 = <<>> THEN <<Opcode("equal", 0, 1, 0, 1)>> ELSE codes0
        c1 == codes[1]
        codes1 == IF c1.tag = "equal"
                  THEN [codes EXCEPT ![1] =
                           Opcode("equal", Max(c1.i1, c1.i2 - n), c1.i2,
                                  Max(c1.j1, c1.j2 - n), c1.j2)]
                  ELSE codes
        cl == codes1[Len(codes1)]
    IN  IF cl.tag = "equal"
        THEN [codes1 EXCEPT ![Len(codes1)] =
                 Opcode("equal", cl.i1, Min(cl.i2, cl.i1 + n),
                        cl.j1, Min(cl.j2, cl.j1 + n))]
        ELSE codes1

\* the loop of get_grouped_opcodes from opcode k on: group is the group being
\* built; the result is the sequence of the groups yielded
RECURSIVE GroupLoop(_, _, _, _)
GroupLoop(codes, k, n, group) ==
    IF k > Len(codes)
    THEN IF group # <<>> /\ ~(Len(group) = 1 /\ group[1].tag = "equal")
         THEN <<group>> ELSE <<>>
    ELSE LET c == codes[k]
         IN  IF c.tag = "equal" /\ c.i2 - c.i1 > n + n
             THEN <<Append(group, Opcode(c.tag, c.i1, Min(c.i2, c.i1 + n),
                                         c.j1, Min(c.j2, c.j1 + n)))>>
                  \o GroupLoop(codes, k + 1, n,
                               <<Opcode(c.tag, Max(c.i1, c.i2 - n), c.i2,
                                        Max(c.j1, c.j2 - n), c.j2)>>)
             ELSE GroupLoop(codes, k + 1, n, Append(group, c))

\* get_grouped_opcodes(n)
GetGroupedOpcodes(a, b, n) == GroupLoop(FixupEnds(GetOpcodes(a, b), n), 1, n, <<>>)

\* str(n) of a natural number
RECURSIVE DecStr(_)
DecStr(n) ==
    IF n < 10 THEN <<DigitChars[n + 1]>>
    ELSE Append(DecStr(n \div 10), DigitChars[(n % 10) + 1])

\* _format_range_unified
FormatRangeUnified(start, stop) ==
    LET beginning == start + 1
        length == stop - start
    IN  IF length = 1 THEN DecStr(beginning)
        ELSE DecStr(IF length = 0 THEN beginning - 1 ELSE beginning)
             \o <<",">> \o DecStr(length)

\* the lines of one opcode: ' ', '-' or '+' before each token
OpcodeLines(a, b, c) ==
    IF c.tag = "equal"
    THEN [t \in 1..(c.i2 - c.i1) |-> <<" ">> \o a[c.i1 + t]]
    ELSE (IF c.tag \in {"replace", "delete"}
          THEN [t \in 1..(c.i2 - c.i1) |-> <<"-">> \o a[c.i1 + t]] ELSE <<>>)
         \o
         (IF c.tag \in {"replace", "insert"}
          THEN [t \in 1..(c.j2 - c.j1) |-> <<"+">> \o b[c.j1 + t]] ELSE <<>>)

RECURSIVE GroupLines(_, _, _, _)
GroupLines(a, b, group, k) ==
    IF k > Len(group) THEN <<>>
    ELSE OpcodeLines(a, b, group[k]) \o GroupLines(a, b, group, k + 1)

\* the '@@ -r1 +r2 @@' line of a group
HunkHeader(group) ==
    <<"@","@"," ","-">>
    \o FormatRangeUnified(group[1].i1, group[Len(group)].i2)
    \o <<" ","+">>
    \o FormatRangeUnified(group[1].j1, group[Len(group)].j2)
    \o <<" ","@","@">>

RECURSIVE HunkLines(_, _, _, _)
HunkLines(a, b, groups, k) ==
    IF k > Len(groups) THEN <<>>
    ELSE <<HunkHeader(groups[k])>> \o GroupLines(a, b, groups[k], 1)
         \o HunkLines(a, b, groups, k + 1)

\* list(difflib.unified_diff(a, b, lineterm='')): the file names are empty
UnifiedDiff(a, b) ==
    LET groups == GetGroupedOpcodes(a, b, ContextLines)
    IN  IF groups = <<>> THEN <<>>
        ELSE << <<"-","-","-"," ">>, <<"+","+","+"," ">> >> \o HunkLines(a, b, groups, 1)

\* the test find_differences makes at position i of diff_list before it
\* appends a record
IsPaired(diff_list, i) ==
    /\ StartsWith(diff_list[i], <<"-">>)
    /\ ~StartsWith(diff_list[i], <<"-","-","-">>)
    /\ i + 1 <= Len(diff_list)
    /\ StartsWith(diff_list[i + 1], <<"+">>)

\* the loop of find_differences over diff_list: one record for each position
\* that passes the test, in the order of the positions
Differences(diff_list) ==
    LET paired == SelectSeq(Indices(Len(diff_list)), LAMBDA i : IsPaired(diff_list, i))
    IN  [k \in 1..Len(paired) |->
            DifferenceRecord(Strip(Tail(diff_list[paired[k]])),
                             Strip(Tail(diff_list[paired[k] + 1])))]

\* a faulty find_differences that diffs the words of original against the
\* characters of corrected (corrected.split() forgotten)
FindDifferences_Unsplit(o, c) ==
    Differences(UnifiedDiff(Split(o), [k \in 1..Len(c) |-> <<c[k]>>]))

\* find_differences
FindDifferences(o, c) == Differences(UnifiedDiff(Split(o), Split(c)))

-----------------------------------------------------------------------------
(* correct_text as a state machine: one step per stage of the pipeline.    *)

Stages == {"Spelling", "Grammar", "Punctuation", "Fluency"}

MaxFrags == 2

\* the pieces the input texts are made of
Frags == { Word.i \o <<" ">>, Word.teh \o <<" ">> \o Word.the \o <<" ">>, <<"T","e","h">>, <<" ">>,
           Word.good \o <<" ">> \o Word.good \o <<" ">> \o Word.very \o <<" "," ">> \o Word.very,
           Word.a \o <<" ">> \o Word.lot \o <<" ">> \o Word.of, Word.helo \o <<".">> }

SeqsUpTo(S, n) == UNION {[1..k -> S] : k \in 0..n}

\* the text "i teh  good good cat", with two spaces after teh
ScenarioText ==
    Word.i \o <<" ">> \o Word.teh \o <<" ", " ">> \o Word.good \o <<" ">> \o Word.good
        \o <<" ">> \o Word.cat

Texts == {Flatten(fs) : fs \in SeqsUpTo(Frags, MaxFrags)} \cup {ScenarioText}

\* the options of the caller's multiselect, in its order
Options == <<"Spelling", "Grammar", "Fluency", "Punctuation">>

Reverse(q) == [i \in 1..Len(q) |-> q[Len(q) + 1 - i]]

Pick(S) == SelectSeq(Options, LAMBDA x : x \in S)

\* the lists of stage names a caller passes: any selection, in the order of the
\* options or in the opposite order
TypeLists == {Pick(S) : S \in SUBSET Stages} \cup {Reverse(Pick(S)) : S \in SUBSET Stages}

\* the thresholds passed (hundredths)
Thresholds == {70, 80, 100}

EngineIdle ==
    /\ text = <<>>
    /\ correction_types = <<>>
    /\ confidence_threshold = 70
    /\ blob = "identity"
    /\ corrected_text = <<>>
    /\ suggestions = <<>>
    /\ calls = <<>>
ProcessorIdle == original = <<>> /\ corrected = <<>> /\ differences = <<>>
DistanceIdle == s1 = <<>> /\ s2 = <<>> /\ s3 = <<>> /\ dist = <<>>
AppIdle == returned = <<>> /\ session_state = <<>>

Init ==
    /\ pc = "spelling"
    /\ text \in Texts
    /\ correction_types \in TypeLists
    /\ confidence_threshold \in Thresholds
    /\ blob \in BlobKinds
    /\ corrected_text = text
    /\ suggestions = <<>>
    /\ calls = <<>>
    /\ ProcessorIdle
    /\ DistanceIdle
    /\ AppIdle

\* a faulty block of correct_text that runs the stage without testing
\* correction_types
RunStage_Unconditional(name, r, next) ==
    /\ corrected_text' = r.text
    /\ suggestions' = suggestions \o r.suggestions
    /\ calls' = Append(calls, [stage |-> name, input |-> corrected_text,
                               output |-> r.text, suggestions |-> r.suggestions])
    /\ pc' = next
    /\ UNCHANGED <<text, correction_types, confidence_threshold, blob>>
    /\ UNCHANGED <<processorVars, distanceVars, appVars>>

\* one "if X in correction_types:" block of correct_text: r is what the stage
\* returned for the current corrected_text
RunStage(name, r, next) ==
    /\ IF name \in Range(correction_types)
       THEN /\ corrected_text' = r.text
            /\ suggestions' = suggestions \o r.suggestions
            /\ calls' = Append(calls, [stage |-> name, input |-> corrected_text,
                                       output |-> r.text,
                                       suggestions |-> r.suggestions])
       ELSE UNCHANGED <<corrected_text, suggestions, calls>>
    /\ pc' = next
    /\ UNCHANGED <<text, correction_types, confidence_threshold, blob>>
    /\ UNCHANGED <<processorVars, distanceVars, appVars>>

StageSpelling ==
    /\ pc = "spelling"
    /\ RunStage("Spelling", CorrectSpelling(corrected_text, confidence_threshold),
                "grammar")

StageGrammar ==
    /\ pc = "grammar"
    /\ RunStage("Grammar", CorrectGrammar(blob, corrected_text, confidence_threshold),
                "punctuation")

\* a faulty punctuation block that corrects the input text, not corrected_text
StagePunctuation_OnInput ==
    /\ pc = "punctuation"
    /\ RunStage("Punctuation", CorrectPunctuation(text, confidence_threshold), "fluency")

StagePunctuation ==
    /\ pc = "punctuation"
    /\ RunStage("Punctuation",
                CorrectPunctuation(corrected_text, confidence_threshold), "fluency")

StageFluency ==
    /\ pc = "fluency"
    /\ RunStage("Fluency", ImproveFluency(corrected_text, confidence_threshold),
                "done")

Next == StageSpelling \/ StageGrammar \/ StagePunctuation \/ StageFluency

Spec == Init /\ [][Next]_vars

-----------------------------------------------------------------------------
(* Claims about correct_text.                                              *)

\* the order in which correct_text tests the stage names
PipelineOrder == <<"Spelling", "Grammar", "Punctuation", "Fluency">>

\* what the stage called name returns for the text t
StageResult(name, t) ==
    CASE name = "Spelling" -> CorrectSpelling(t, confidence_threshold)
      [] name = "Grammar" -> CorrectGrammar(blob, t, confidence_threshold)
      [] name = "Punctuation" -> CorrectPunctuation(t, confidence_threshold)
      [] OTHER -> ImproveFluency(t, confidence_threshold)

RECURSIVE ConcatSuggestions(_)
ConcatSuggestions(cs) ==
    IF cs = <<>> THEN <<>> ELSE cs[1].suggestions \o ConcatSuggestions(Tail(cs))

\* C1: when correct_text returns, the stages that ran are the enabled ones in
\* the order Spelling, Grammar, Punctuation, Fluency, whatever the order of
\* correction_types; each received the text the previous one produced (the
\* first the input text) and produced its own result for it; corrected_text is
\* the last output and suggestions is the concatenation of the stages'
\* suggestions in that order.
C1_FixedOrderComposition ==
    pc = "done" =>
        /\ [k \in 1..Len(calls) |-> calls[k].stage]
             = SelectSeq(PipelineOrder, LAMBDA n : n \in Range(correction_types))
        /\ \A k \in 1..Len(calls) :
             LET r == StageResult(calls[k].stage, calls[k].input)
             IN  /\ calls[k].input = (IF k = 1 THEN text ELSE calls[k - 1].output)
                 /\ calls[k].output = r.text
                 /\ calls[k].suggestions = r.suggestions
        /\ corrected_text = (IF calls = <<>> THEN text ELSE calls[Len(calls)].output)
        /\ suggestions = ConcatSuggestions(calls)

\* C1 witness: correct_text returned after three stages ran on a list given
\* in the opposite order, the later ones on a text an earlier one had changed
C1_Witness ==
    /\ pc = "done"
    /\ Len(calls) = 3
    /\ correction_types[1] = "Punctuation"
    /\ calls[1].output # text
    /\ calls[2].output # calls[2].input
    /\ calls[3].suggestions # <<>>

\* C2: with no stage enabled correct_text returns the text unchanged and no
\* suggestion
C2_NoStagesIdentity ==
    (pc = "done" /\ correction_types = <<>>) =>
        (corrected_text = text /\ suggestions = <<>>)

\* C2 witness: correct_text returned for an empty list of stages and a text
\* every stage would have changed
C2_Witness ==
    /\ pc = "done"
    /\ correction_types = <<>>
    /\ \A n \in Stages : StageResult(n, text).text # text

\* a stage's suggestions record every change it made, one after the other
ChainOK(c) ==
    LET g == c.suggestions
    IN  /\ (g = <<>> => c.output = c.input)
        /\ (g # <<>> => g[1].original = c.input /\ g[Len(g)].corrected = c.output)
        /\ \A k \in 1..Len(g) : g[k].original # g[k].corrected
        /\ \A k \in 1..(Len(g) - 1) : g[k + 1].original = g[k].corrected

\* the positions of the words the spelling stage replaced
ChangedWords(c) ==
    LET ins == Split(c.input)
        outs == Split(c.output)
    IN  {k \in 1..Len(ins) : outs[k] # ins[k]}

\* C3: when correct_text returns, the spelling stage has recorded every word
\* it replaced, with confidence 0.8; the grammar and the punctuation stage
\* have recorded every change they made, with the fixed confidence of the rule,
\* all three whatever the threshold; the fluency stage has recorded, of the
\* changes its patterns made, those whose confidence is at least the threshold,
\* and its text is the same either way.
C3_AsymmetricGating ==
    pc = "done" =>
      \A k \in 1..Len(calls) :
        LET c == calls[k]
            ungated == ImproveFluency(c.input, 0)
        IN  /\ c.stage = "Spelling" =>
                 /\ Len(c.suggestions) = Cardinality(ChangedWords(c))
                 /\ \A j \in 1..Len(c.suggestions) :
                      /\ c.suggestions[j].confidence = 80
                      /\ c.suggestions[j].original # c.suggestions[j].corrected
            /\ c.stage = "Grammar" =>
                 /\ ChainOK(c)
                 /\ \A j \in 1..Len(c.suggestions) :
                      c.suggestions[j].confidence \in {75, 95, 90, 80}
            /\ c.stage = "Punctuation" =>
                 /\ ChainOK(c)
                 /\ \A j \in 1..Len(c.suggestions) :
                      c.suggestions[j].confidence \in {90, 95, 80}
            /\ c.stage = "Fluency" =>
                 /\ c.output = ungated.text
                 /\ c.suggestions =
                      SelectSeq(ungated.suggestions,
                                LAMBDA g : g.confidence >= confidence_threshold)

\* C3 witness: spelling, grammar and punctuation each recorded a suggestion
\* whose confidence is below the threshold, and the fluency stage changed the
\* text without recording the change
C3_Witness ==
    /\ pc = "done"
    /\ Len(calls) = 4
    /\ \A k \in 1..3 : \E j \in 1..Len(calls[k].suggestions) :
           calls[k].suggestions[j].confidence < confidence_threshold
    /\ calls[4].output # calls[4].input
    /\ calls[4].suggestions = <<>>

W_Teh == <<"T","e","h">>
W_The == <<"T","h","e">>

\* C10: with the external corrector out of the way, the grammar stage applied
\* to the token "Teh" returns "The": the rule teh -> the keeps the case of the
\* text it matched.
C10_TehKeepsTitleCase ==
    \A k \in 1..Len(calls) :
        (calls[k].stage = "Grammar" /\ blob = "identity" /\ calls[k].input = W_Teh)
            => calls[k].output = W_The

\* C10, what the code does: the rule replaces the match by the literal "the"
C10_TehBecomesLowerCase ==
    \A k \in 1..Len(calls) :
        (calls[k].stage = "Grammar" /\ blob = "identity" /\ calls[k].input = W_Teh)
            => calls[k].output = Word.the

\* C10 witness: the grammar stage ran on the token "Teh" with the rule table alone
C10_Witness ==
    \E k \in 1..Len(calls) :
        calls[k].stage = "Grammar" /\ blob = "identity" /\ calls[k].input = W_Teh

\* the text "I the excellent cat."
ScenarioResult ==
    Word.I \o <<" ">> \o Word.the \o <<" ">> \o Word.excellent \o <<" ">> \o Word.cat \o <<".">>

\* correct_text returned for the scenario: the text "i teh  good good cat",
\* the four stages enabled, threshold 0.7, the external corrector the identity
ScenarioDone ==
    /\ pc = "done"
    /\ text = ScenarioText
    /\ Range(correction_types) = Stages
    /\ confidence_threshold = 70
    /\ blob = "identity"

\* C12: correct_text("i teh  good good cat", all four stages, 0.7) returns
\* "I the excellent cat." and records the fluency suggestion of "good good",
\* whose confidence 0.7 is not below the threshold.
C12_ScenarioFinalText ==
    ScenarioDone =>
        /\ corrected_text = ScenarioResult
        /\ \E j \in 1..Len(suggestions) :
               /\ suggestions[j].type = "fluency"
               /\ suggestions[j].confidence = 70
               /\ suggestions[j].corrected = ScenarioResult

\* C12 witness: correct_text returned for the scenario, the four stages having
\* run and each having changed the text
C12_Witness ==
    /\ ScenarioDone
    /\ Len(calls) = 4
    /\ \A k \in 1..4 : calls[k].output # calls[k].input

\* correct_text as a function of its arguments and of the behaviour of the
\* external corrector
CorrectText(t, types, threshold, kind) ==
    LET stage(name, x) ==
            CASE name = "Spelling" -> CorrectSpelling(x, threshold)
              [] name = "Grammar" -> CorrectGrammar(kind, x, threshold)
              [] name = "Punctuation" -> CorrectPunctuation(x, threshold)
              [] OTHER -> ImproveFluency(x, threshold)
        \* the blocks of names in turn; S holds the one pair of text and
        \* suggestions before them
        RECURSIVE blocks(_, _)
        blocks(S, names) ==
            IF names = <<>> THEN S
            ELSE blocks(IF Head(names) \in Range(types)
                        THEN UNION {{[text |-> g.text,
                                      suggestions |-> st.suggestions \o g.suggestions] :
                                         g \in {stage(Head(names), st.text)}} : st \in S}
                        ELSE S,
                        Tail(names))
    IN  The(blocks({[text |-> t, suggestions |-> <<>>]},
                   <<"Spelling", "Grammar", "Punctuation", "Fluency">>))

\* the run the others are compared with: the same call with the threshold
\* 1.0, which is above every confidence
ReferenceRun == CorrectText(text, correction_types, 100, blob)

\* the suggestions that do not come from the fluency stage
NotFluency(q) == SelectSeq(q, LAMBDA g : g.type # "fluency")

IsBlank(t) == \A k \in 1..Len(t) : IsSpace(t[k])

\* C13: for an empty or whitespace-only text correct_text returns, for any
\* stages and threshold, a text with no non-whitespace character and no
\* suggestion.
C13_BlankDefault ==
    (pc = "done" /\ IsBlank(text)) =>
        (IsBlank(corrected_text) /\ suggestions = <<>>)

\* the punctuation stage receives a whitespace-only text that is not empty:
\* it is enabled and the spelling stage, which would empty the text, is not
PunctuationOnBlank ==
    /\ IsBlank(text)
    /\ text # <<>>
    /\ "Punctuation" \in Range(correction_types)
    /\ "Spelling" \notin Range(correction_types)

\* C13, what the code does: the default is returned unless the punctuation
\* stage receives a whitespace-only text that is not empty; it then appends
\* a period to the stripped text and records the change.
C13_BlankDefaultUnlessPunctuated ==
    (pc = "done" /\ IsBlank(text)) =>
        IF PunctuationOnBlank
        THEN /\ corrected_text = <<".">>
             /\ suggestions # <<>>
             /\ \A j \in 1..Len(suggestions) : suggestions[j].type = "punctuation"
        ELSE IsBlank(corrected_text) /\ suggestions = <<>>

\* C13 witness: correct_text returned for a whitespace-only text with the
\* punctuation stage enabled and the spelling stage not
C13_Witness ==
    pc = "done" /\ PunctuationOnBlank

-----------------------------------------------------------------------------
(* _correct_punctuation applied twice, over every short text of an         *)
(* alphabet with a letter, punctuation marks and whitespace.               *)

MaxPunctLen == 4

PunctAlphabet == {"a", ".", ",", " ", "\n"}

PunctTexts == SeqsUpTo(PunctAlphabet, MaxPunctLen)

InitPunct ==
    /\ pc = "first"
    /\ text \in PunctTexts
    /\ correction_types = <<"Punctuation">>
    /\ confidence_threshold = 70
    /\ blob = "identity"
    /\ corrected_text = text
    /\ suggestions = <<>>
    /\ calls = <<>>
    /\ ProcessorIdle
    /\ DistanceIdle
    /\ AppIdle

PunctFirst ==
    /\ pc = "first"
    /\ RunStage("Punctuation",
                CorrectPunctuation(corrected_text, confidence_threshold), "second")

PunctSecond ==
    /\ pc = "second"
    /\ RunStage("Punctuation",
                CorrectPunctuation(corrected_text, confidence_threshold), "done")

NextPunct == PunctFirst \/ PunctSecond

SpecPunct == InitPunct /\ [][NextPunct]_vars

\* C9: the second application of _correct_punctuation returns the output of
\* the first unchanged and emits no suggestion.
C9_PunctuationIdempotent ==
    pc = "done" =>
        /\ calls[2].input = calls[1].output
        /\ calls[2].output = calls[2].input
        /\ calls[2].suggestions = <<>>
        /\ corrected_text = calls[1].output

\* C9 witness: the first application fired all three sub-rules and the second
\* application has run
C9_Witness ==
    /\ pc = "done"
    /\ Len(calls[1].suggestions) = 3

-----------------------------------------------------------------------------
(* find_differences over pairs of short texts, and over texts long enough  *)
(* for difflib to leave the popular tokens out of its index.               *)

MaxTokens == 3

\* the tokens of the short texts
DiffWords == {<<"h","a","s">>, <<"H","a","s">>, <<"h","a","t">>, <<"-","-">>}

DiffTexts == {Join(ws) : ws \in SeqsUpTo(DiffWords, MaxTokens)}

\* n times the word, separated by single spaces
LongText(word, n) ==
    [p \in 1..(n * (Len(word) + 1) - 1) |->
        IF p % (Len(word) + 1) = 0 THEN " " ELSE word[p % (Len(word) + 1)]]

\* pairs of texts whose corrected text has AutojunkLen tokens
LongPairs ==
    { <<<<"q", " ">> \o Word.the, LongText(Word.the, AutojunkLen)>>,
      <<LongText(Word.the, AutojunkLen), LongText(Word.the, AutojunkLen)>> }

InitDiff ==
    /\ pc = "call"
    /\ \E p \in (DiffTexts \X DiffTexts) \cup LongPairs :
           original = p[1] /\ corrected = p[2]
    /\ differences = <<>>
    /\ EngineIdle
    /\ DistanceIdle
    /\ AppIdle

\* the call find_differences(original, corrected)
FindDifferencesCall ==
    /\ pc = "call"
    /\ differences' = FindDifferences(original, corrected)
    /\ pc' = "done"
    /\ UNCHANGED <<original, corrected, engineVars, distanceVars, appVars>>

NextDiff == FindDifferencesCall

SpecDiff == InitDiff /\ [][NextDiff]_vars

\* C4: find_differences of a text and itself returns the empty list.
C4_SameTextNoDifferences ==
    (pc = "done" /\ original = corrected) => differences = <<>>

\* C4 witness: find_differences returned for two equal texts of three tokens
C4_Witness ==
    /\ pc = "done"
    /\ original = corrected
    /\ Len(Split(original)) = 3

\* C5: no record of find_differences has its original equal to its corrected.
C5_NoNoOpRecord ==
    pc = "done" =>
        \A k \in 1..Len(differences) :
            differences[k].original # differences[k].corrected

\* the type the ordered rules give a pair: different lengths, then equal but
\* for the case, then a grammar indicator on either side, then fluency
RuleType(o, c) ==
    IF Len(o) # Len(c) THEN "Spelling"
    ELSE IF Lower(o) = Lower(c) /\ o # c THEN "Capitalization"
    ELSE IF Lower(o) \in grammar_indicators \/ Lower(c) \in grammar_indicators
         THEN "Grammar"
    ELSE "Fluency"

\* C6: every record has the type of the first rule, in that order, that its
\* pair of tokens matches.
C6_FirstMatchingRule ==
    pc = "done" =>
        \A k \in 1..Len(differences) :
            differences[k].type
                = RuleType(differences[k].original, differences[k].corrected)

\* C6 on the records whose tokens differ
C6_FirstMatchingRuleOfEdits ==
    pc = "done" =>
        \A k \in 1..Len(differences) :
            differences[k].original # differences[k].corrected =>
                differences[k].type
                    = RuleType(differences[k].original, differences[k].corrected)

\* the Levenshtein distance, by its recurrence on the first characters
RECURSIVE Levenshtein(_, _)
Levenshtein(x, y) ==
    IF x = <<>> THEN Len(y)
    ELSE IF y = <<>> THEN Len(x)
    ELSE IF x[1] = y[1] THEN Levenshtein(Tail(x), Tail(y))
    ELSE 1 + Min3(Levenshtein(Tail(x), y), Levenshtein(x, Tail(y)),
                  Levenshtein(Tail(x), Tail(y)))

\* the fraction f is max(1/2, 1 - d/m), for m > 0
IsFlooredRatio(f, d, m) ==
    /\ f[2] > 0
    /\ IF 2 * (m - d) >= m THEN f[1] * m = (m - d) * f[2] ELSE 2 * f[1] = f[2]

\* C7: the confidence of every record is max(0.5, 1 - distance / longer
\* length), with the Levenshtein distance of its two tokens; it is computed
\* without a division by zero and lies between 0.5 and 1.
C7_ConfidenceFormula ==
    pc = "done" =>
        \A k \in 1..Len(differences) :
            LET r == differences[k]
                m == Max(Len(r.original), Len(r.corrected))
            IN  /\ m > 0
                /\ r.confidence[2] # 0
                /\ IsFlooredRatio(r.confidence, Levenshtein(r.original, r.corrected), m)
                /\ 2 * r.confidence[1] >= r.confidence[2]
                /\ r.confidence[1] <= r.confidence[2]

\* C7 witness: find_differences returned a record whose confidence is above
\* 0.5 and one whose confidence is the floor 0.5 of a lower ratio
C7_Witness ==
    /\ pc = "done"
    /\ \E k \in 1..Len(differences) :
           2 * differences[k].confidence[1] > differences[k].confidence[2]
    /\ \E k \in 1..Len(differences) :
           /\ differences[k].confidence = <<1, 2>>
           /\ EditDistance(differences[k].original, differences[k].corrected)
                = Len(differences[k].original)

\* C5 witness: find_differences returned a record
C5_Witness == pc = "done" /\ differences # <<>>

\* the token-level unified diff of the two texts
DiffLines == UnifiedDiff(Split(original), Split(corrected))

\* the places of the diff, after its two file header lines, where a deletion
\* line is immediately followed by an insertion line
AdjacentPairs(d) ==
    SelectSeq(Indices(Len(d)),
              LAMBDA i : i >= 3 /\ i < Len(d) /\ Head(d[i]) = "-" /\ Head(d[i + 1]) = "+")

\* the records of the places, in the order of the diff
RecordsOf(d, places) ==
    [k \in 1..Len(places) |-> DifferenceRecord(Tail(d[places[k]]), Tail(d[places[k] + 1]))]

\* C16: find_differences returns one record for each place of the diff where
\* a deletion line is immediately followed by an insertion line, of that
\* deleted and that inserted token, in the order of the diff, and no other
\* record.
C16_OneRecordPerAdjacentPair ==
    pc = "done" => differences = RecordsOf(DiffLines, AdjacentPairs(DiffLines))

\* C16, what the code does: a place whose deleted token starts with "--" gives
\* no record, its line starting with "---" like the file header
C16_OneRecordUnlessDashes ==
    pc = "done" =>
        differences =
            RecordsOf(DiffLines,
                      SelectSeq(AdjacentPairs(DiffLines),
                                LAMBDA i : ~StartsWith(DiffLines[i], <<"-","-","-">>)))

\* C16 witness: find_differences returned for a diff with a place whose
\* deleted token starts with "--", and with another place after it
C16_Witness ==
    /\ pc = "done"
    /\ Len(AdjacentPairs(DiffLines)) = 2
    /\ StartsWith(DiffLines[AdjacentPairs(DiffLines)[1]], <<"-","-","-">>)
    /\ differences # <<>>

-----------------------------------------------------------------------------
(* _edit_distance over every triple of short strings of two letters.       *)

MaxStrLen == 3

DistAlphabet == {"a", "b"}

DistStrings == SeqsUpTo(DistAlphabet, MaxStrLen)

InitDistance ==
    /\ pc = "call"
    /\ s1 \in DistStrings
    /\ s2 \in DistStrings
    /\ s3 \in DistStrings
    /\ dist = <<>>
    /\ EngineIdle
    /\ ProcessorIdle
    /\ AppIdle

\* the calls of _edit_distance on the pairs of s1, s2, s3
EditDistanceCalls ==
    /\ pc = "call"
    /\ dist' = [d11 |-> EditDistance(s1, s1), d12 |-> EditDistance(s1, s2),
                d21 |-> EditDistance(s2, s1), d23 |-> EditDistance(s2, s3),
                d13 |-> EditDistance(s1, s3)]
    /\ pc' = "done"
    /\ UNCHANGED <<s1, s2, s3, engineVars, processorVars, appVars>>

NextDistance == EditDistanceCalls

SpecDistance == InitDistance /\ [][NextDistance]_vars

\* C8: _edit_distance returns the Levenshtein distance, and it is a metric:
\* zero from a string to itself, symmetric, and within the triangle inequality.
C8_LevenshteinMetric ==
    pc = "done" =>
        /\ dist.d12 = Levenshtein(s1, s2)
        /\ dist.d11 = 0
        /\ dist.d12 = dist.d21
        /\ dist.d13 <= dist.d12 + dist.d23

\* C8 witness: the distances of three different strings were computed, one of
\* them needing an insertion and a substitution
C8_Witness ==
    /\ pc = "done"
    /\ s1 # s2 /\ s2 # s3 /\ s1 # s3
    /\ Len(s1) < Len(s2)
    /\ dist.d12 > Len(s2) - Len(s1)
    /\ dist.d13 = dist.d12 + dist.d23

-----------------------------------------------------------------------------
(* The branch of _correct_spelling that replaces one word, over every      *)
(* short token and every correction the dictionary may return for it.      *)

MaxWordLen == 3

\* the characters of the tokens: upper-case and lower-case letters and a mark
TokenAlphabet == {"A", "B", "a", "!"}

\* the characters of the corrections the dictionary returns
CorrectionAlphabet == {"a", "b"}

Tokens == SeqsUpTo(TokenAlphabet, MaxWordLen) \ {<<>>}

\* the corrections: shorter than, as long as and longer than the tokens
Corrections == SeqsUpTo(CorrectionAlphabet, MaxWordLen + 1) \ {<<>>}

InitPreserve ==
    /\ pc = "call"
    /\ original \in Tokens
    /\ corrected \in Corrections
    /\ differences = <<>>
    /\ returned = <<>>
    /\ session_state = <<>>
    /\ EngineIdle
    /\ DistanceIdle

\* the word appended to corrected_words for the word original when the
\* dictionary does not know it and returns corrected for it
ReplaceWord ==
    /\ pc = "call"
    /\ returned' = (IF CleanWord(original) # <<>> /\ corrected # CleanWord(original)
                    THEN PreserveCaseAndPunct(original, corrected)
                    ELSE original)
    /\ pc' = "done"
    /\ UNCHANGED <<processorVars, engineVars, distanceVars, session_state>>

NextPreserve == ReplaceWord

SpecPreserve == InitPreserve /\ [][NextPreserve]_vars

\* the letters of a token, and its other characters, in their order
LettersOf(w) == SelectSeq(w, IsAlpha)
MarksOf(w) == SelectSeq(w, LAMBDA c : ~IsAlpha(c))

\* the token has a letter and its letters are all upper-case
AllCaps(w) == LettersOf(w) # <<>> /\ \A k \in 1..Len(w) : IsAlpha(w[k]) => IsUpper(w[k])

\* the dictionary's correction of the token was accepted
Accepted == CleanWord(original) # <<>> /\ corrected # CleanWord(original)

\* C11: for a token whose letters are all upper-case and an accepted
\* correction of any length, the word returned has all its letters upper-case
\* and the token's non-alphabetic characters, unchanged and in their order.
C11_AllCapsPreserved ==
    (pc = "done" /\ AllCaps(original) /\ Accepted) =>
        /\ AllCaps(returned)
        /\ MarksOf(returned) = MarksOf(original)

\* C11, what the code does: the same holds when the correction is not longer
\* than the letters of the token; the characters of a longer correction that
\* are left over are appended in lower case.
C11_AllCapsUnlessLonger ==
    (pc = "done" /\ AllCaps(original) /\ Accepted) =>
        LET n == Len(LettersOf(original))
        IN  /\ MarksOf(returned) = MarksOf(original)
            /\ Len(corrected) <= n => AllCaps(returned)
            /\ Len(corrected) > n =>
                 /\ Len(returned) = Len(MarksOf(original)) + Len(corrected)
                 /\ SubSeq(returned, Len(original) + 1, Len(returned))
                      = SubSeq(corrected, n + 1, Len(corrected))

\* C11 witness: an all-caps token with a mark got a longer correction
C11_Witness ==
    /\ pc = "done"
    /\ AllCaps(original)
    /\ Accepted
    /\ MarksOf(original) # <<>>
    /\ Len(corrected) > Len(LettersOf(original))

-----------------------------------------------------------------------------
(* MetricsCalculator (src/utils/metrics_calculator.py).  A number is the   *)
(* exact fraction num / den with den > 0; an operation that divides by     *)
(* zero returns ZeroDivisionError, as it raises it in the code.            *)

ZeroDivisionError == [ok |-> FALSE, num |-> 0, den |-> 1]

Number(n, d) == [ok |-> TRUE, num |-> n, den |-> d]

\* n / d of two integers
Div(n, d) == IF d = 0 THEN ZeroDivisionError ELSE Number(n, d)

\* min(hi, max(lo, x)) for the integers lo <= hi
Clamp(x, lo, hi) ==
    IF ~x.ok THEN x
    ELSE IF x.num > hi * x.den THEN Number(hi, 1)
    ELSE IF x.num < lo * x.den THEN Number(lo, 1)
    ELSE x

\* round(x, digits) for unit = 10^digits: the nearest multiple of 1/unit, a
\* tie going to the even one
Round(x, unit) ==
    IF ~x.ok THEN x
    ELSE LET q == (unit * x.num) \div x.den
             r == (unit * x.num) % x.den
         IN  Number(IF 2 * r > x.den \/ (2 * r = x.den /\ q % 2 = 1) THEN q + 1 ELSE q,
                    unit)

RECURSIVE SumSeq(_)
SumSeq(q) == IF q = <<>> THEN 0 ELSE Head(q) + SumSeq(Tail(q))

\* [s.strip() for s in re.split(r'[.!?]+', text) if s.strip()]
Sentences(t) ==
    LET starts == SelectSeq(Indices(Len(t)),
                      LAMBDA i : t[i] \notin SentenceEnds
                                 /\ (i = 1 \/ t[i - 1] \in SentenceEnds))
        last(i) == CHOOSE j \in i..Len(t) :
                       /\ (j = Len(t) \/ t[j + 1] \in SentenceEnds)
                       /\ \A k \in i..j : t[k] \notin SentenceEnds
        pieces == [k \in 1..Len(starts) |-> Strip(SubSeq(t, starts[k], last(starts[k])))]
    IN  SelectSeq(pieces, LAMBDA piece : piece # <<>>)

\* _count_sentences
CountSentences(t) == Len(Sentences(t))

\* _count_words
CountWords(t) == Len(Split(t))

Vowels == {"a", "e", "i", "o", "u", "y"}

\* the syllables _count_syllables counts for one word of text.lower().split()
WordSyllables(w) ==
    LET word == SelectSeq(w, IsLower)
        groups == Cardinality({i \in 1..Len(word) :
                      word[i] \in Vowels /\ (i = 1 \/ word[i - 1] \notin Vowels)})
        vowel_groups == IF word[Len(word)] = "e" /\ groups > 1 THEN groups - 1
                        ELSE groups
    IN  IF word = <<>> THEN 0 ELSE Max(1, vowel_groups)

\* _count_syllables
CountSyllables(t) ==
    LET words == Split(Lower(t))
    IN  SumSeq([k \in 1..Len(words) |-> WordSyllables(words[k])])

\* calculate_accuracy: the two lists are rebound to their first min_length
\* words before the division
CalculateAccuracy(orig, corr) ==
    IF orig = <<>> THEN Number(100, 1)
    ELSE LET min_length == Min(Len(Split(orig)), Len(Split(corr)))
             original_words == SubSeq(Split(orig), 1, min_length)
             corrected_words == SubSeq(Split(corr), 1, min_length)
             corrections_made ==
                 Cardinality({k \in 1..min_length : original_words[k] # corrected_words[k]})
         IN  IF original_words = <<>> THEN Number(100, 1)
             ELSE Clamp(Div(corrections_made * 100, Len(original_words)), 0, 100)

\* 206.835 - (1.015 * (words / sentences)) - (84.6 * (syllables / words)),
\* between 0 and 100
FleschScore(sentences, words, syllables) ==
    IF sentences = 0 \/ words = 0 THEN ZeroDivisionError
    ELSE Clamp(Number(206835 * sentences * words - 1015 * words * words
                          - 84600 * syllables * sentences,
                      1000 * sentences * words), 0, 100)

\* a faulty calculate_readability without the test of the two counts
CalculateReadability_Unguarded(t) ==
    IF Strip(t) = <<>> THEN Number(0, 1)
    ELSE FleschScore(CountSentences(t), CountWords(t), CountSyllables(t))

\* calculate_readability
CalculateReadability(t) ==
    IF Strip(t) = <<>> THEN Number(0, 1)
    ELSE IF CountSentences(t) = 0 \/ CountWords(t) = 0 THEN Number(0, 1)
    ELSE FleschScore(CountSentences(t), CountWords(t), CountSyllables(t))

\* _calculate_word_variety
WordVariety(t) ==
    LET words == Split(Lower(t))
    IN  IF words = <<>> THEN Number(0, 1)
        ELSE Clamp(Div(Cardinality(Range(words)) * 100, Len(words)), 0, 100)

\* _calculate_sentence_variety, squared: the code returns the square root of
\* this number.  (std_dev / avg_length)^2 is
\* sum((n * length - total)^2) / (n * total^2) for n lengths of sum total.
SentenceVarietySquared(t) ==
    LET sentences == Sentences(t)
        lengths == [k \in 1..Len(sentences) |-> Len(Split(sentences[k]))]
        n == Len(lengths)
        total == SumSeq(lengths)
        squares == SumSeq([k \in 1..n |-> (n * lengths[k] - total) * (n * lengths[k] - total)])
    IN  IF Len(sentences) < 2 THEN Number(2500, 1)
        ELSE IF n = 0 \/ total = 0 THEN ZeroDivisionError
        ELSE Clamp(Number(10000 * squares, n * total * total), 0, 10000)

\* _calculate_grammar_score
GrammarScore(t) ==
    LET sentences == Sentences(t)
        short == Cardinality({k \in 1..Len(sentences) : Len(Split(sentences[k])) < 3})
        long == Cardinality({k \in 1..Len(sentences) : Len(Split(sentences[k])) > 25})
        words == Split(Lower(t))
        repeated == Cardinality({i \in 1..(Len(words) - 1) : words[i] = words[i + 1]})
    IN  IF Strip(t) = <<>> THEN Number(0, 1)
        ELSE Clamp(Number(100 - 5 * short - 10 * long - 5 * repeated, 1), 0, 100)

connecting_words ==
    { <<"a","n","d">>, <<"b","u","t">>, <<"o","r">>, <<"s","o">>,
      <<"b","e","c","a","u","s","e">>, <<"a","l","t","h","o","u","g","h">>,
      <<"h","o","w","e","v","e","r">>, <<"t","h","e","r","e","f","o","r","e">>,
      <<"m","o","r","e","o","v","e","r">>,
      <<"f","u","r","t","h","e","r","m","o","r","e">>,
      <<"m","e","a","n","w","h","i","l","e">>,
      <<"c","o","n","s","e","q","u","e","n","t","l","y">> }

\* _calculate_coherence_score
CoherenceScore(t) ==
    LET sentences == Sentences(t)
        connected == Cardinality({k \in 1..Len(sentences) :
                         Range(Split(Lower(sentences[k]))) \cap connecting_words # {}})
    IN  IF Strip(t) = <<>> THEN Number(0, 1)
        ELSE IF Len(sentences) < 2 THEN Number(75, 1)
        ELSE Clamp(Number(50 + 10 * connected, 1), 0, 100)

\* calculate_fluency.  For a text that is not blank the value is
\* word_variety * 0.25 + sentence_variety * 0.25 + grammar_score * 0.3 +
\* coherence_score * 0.2, between 0 and 100; it is kept as its four terms,
\* the sentence variety by its square.
CalculateFluency(t) ==
    IF Strip(t) = <<>> THEN Number(0, 1)
    ELSE IF ~WordVariety(t).ok \/ ~SentenceVarietySquared(t).ok THEN ZeroDivisionError
    ELSE [ok |-> TRUE,
          word_variety |-> WordVariety(t),
          sentence_variety_squared |-> SentenceVarietySquared(t),
          grammar_score |-> GrammarScore(t),
          coherence_score |-> CoherenceScore(t)]

\* calculate_typing_speed, for a whole number of seconds
CalculateTypingSpeed(t, time_taken) ==
    IF time_taken <= 0 THEN [ok |-> TRUE, wpm |-> Number(0, 1), cpm |-> Number(0, 1)]
    ELSE IF ~Div(CountWords(t), time_taken).ok THEN ZeroDivisionError
    ELSE [ok |-> TRUE,
          wpm |-> Round(Number(CountWords(t) * 60, time_taken), 10),
          cpm |-> Round(Number(Len(t) * 60, time_taken), 10)]

\* calculate_error_rate
CalculateErrorRate(orig, corr) ==
    LET original_words == Split(orig)
        corrected_words == Split(corr)
        total_words == Len(original_words)
        min_length == Min(Len(original_words), Len(corrected_words))
        errors == Cardinality({i \in 1..min_length :
                                  original_words[i] # corrected_words[i]})
                    + Max(Len(original_words), Len(corrected_words)) - min_length
    IN  IF total_words = 0
        THEN [ok |-> TRUE, error_rate |-> Number(0, 1), accuracy_rate |-> Number(100, 1),
              errors_corrected |-> 0]
        ELSE IF ~Div(errors, total_words).ok THEN ZeroDivisionError
        ELSE [ok |-> TRUE,
              error_rate |-> Round(Number(errors * 100, total_words), 100),
              accuracy_rate |->
                  Round(Number(100 * total_words - errors * 100, total_words), 100),
              errors_corrected |-> errors]

\* text.split('\n\n'), from position i on; cur is the piece read so far
RECURSIVE SplitParagraphs(_, _, _)
SplitParagraphs(t, i, cur) ==
    IF i > Len(t) THEN <<cur>>
    ELSE IF i < Len(t) /\ t[i] = "\n" /\ t[i + 1] = "\n"
         THEN <<cur>> \o SplitParagraphs(t, i + 2, <<>>)
    ELSE SplitParagraphs(t, i + 1, Append(cur, t[i]))

\* get_detailed_analysis
GetDetailedAnalysis(t) ==
    LET word_count == CountWords(t)
        sentence_count == CountSentences(t)
        avg_words_per_sentence ==
            IF sentence_count > 0 THEN Div(word_count, sentence_count) ELSE Number(0, 1)
    IN  IF Strip(t) = <<>>
        THEN [ok |-> TRUE, word_count |-> 0, character_count |-> 0,
              sentence_count |-> 0, paragraph_count |-> 0,
              avg_words_per_sentence |-> Number(0, 1),
              readability_score |-> Number(0, 1), fluency_score |-> Number(0, 1)]
        ELSE IF ~avg_words_per_sentence.ok \/ ~CalculateReadability(t).ok
                \/ ~CalculateFluency(t).ok
        THEN ZeroDivisionError
        ELSE [ok |-> TRUE, word_count |-> word_count, character_count |-> Len(t),
              sentence_count |-> sentence_count,
              paragraph_count |->
                  Len(SelectSeq(SplitParagraphs(t, 1, <<>>),
                                LAMBDA para : Strip(para) # <<>>)),
              avg_words_per_sentence |-> Round(avg_words_per_sentence, 10),
              readability_score |-> Round(CalculateReadability(t), 10),
              fluency_score |-> CalculateFluency(t)]

-----------------------------------------------------------------------------
(* One call of a function of MetricsCalculator, over short texts.          *)

MaxMetricFrags == 3
MaxPairFrags == 2

\* the pieces the texts are made of: words, sentence ends, whitespace and a
\* paragraph break
MetricFrags == { <<"s","o"," ">>, <<"b","e">>, <<"."," ">>, <<" ">>, <<"\n","\n">>, <<"!">> }

\* the texts of the functions of one text
MetricTexts == {Flatten(fs) : fs \in SeqsUpTo(MetricFrags, MaxMetricFrags)}

\* the texts of the functions of an original and a corrected text
PairTexts == {Flatten(fs) : fs \in SeqsUpTo(MetricFrags, MaxPairFrags)}

\* the numbers of seconds passed to calculate_typing_speed
TimesTaken == {-1, 0, 1, 7}

InitMetrics ==
    /\ pc = "call"
    /\ EngineIdle
    /\ ProcessorIdle
    /\ DistanceIdle
    /\ AppIdle

\* the function fn, called with these arguments, returns value
Return(fn, t, orig, corr, time_taken, value) ==
    /\ pc' = "done"
    /\ text' = t
    /\ original' = orig
    /\ corrected' = corr
    /\ returned' = [fn |-> fn, time_taken |-> time_taken, value |-> value]
    /\ UNCHANGED <<correction_types, confidence_threshold, blob, corrected_text,
                   suggestions, calls, differences, distanceVars, session_state>>

CalculateAccuracyCall ==
    /\ pc = "call"
    /\ \E orig \in PairTexts, corr \in PairTexts :
        Return("calculate_accuracy", <<>>, orig, corr, 0, CalculateAccuracy(orig, corr))

CalculateErrorRateCall ==
    /\ pc = "call"
    /\ \E orig \in PairTexts, corr \in PairTexts :
        Return("calculate_error_rate", <<>>, orig, corr, 0, CalculateErrorRate(orig, corr))

CalculateReadabilityCall ==
    /\ pc = "call"
    /\ \E t \in MetricTexts :
        Return("calculate_readability", t, <<>>, <<>>, 0, CalculateReadability(t))

CalculateFluencyCall ==
    /\ pc = "call"
    /\ \E t \in MetricTexts :
        Return("calculate_fluency", t, <<>>, <<>>, 0, CalculateFluency(t))

CalculateTypingSpeedCall ==
    /\ pc = "call"
    /\ \E t \in MetricTexts, time_taken \in TimesTaken :
        Return("calculate_typing_speed", t, <<>>, <<>>, time_taken,
               CalculateTypingSpeed(t, time_taken))

GetDetailedAnalysisCall ==
    /\ pc = "call"
    /\ \E t \in MetricTexts :
        Return("get_detailed_analysis", t, <<>>, <<>>, 0, GetDetailedAnalysis(t))

NextMetrics ==
    \/ CalculateAccuracyCall
    \/ CalculateErrorRateCall
    \/ CalculateReadabilityCall
    \/ CalculateFluencyCall
    \/ CalculateTypingSpeedCall
    \/ GetDetailedAnalysisCall

SpecMetrics == InitMetrics /\ [][NextMetrics]_vars

\* what get_detailed_analysis returns for a blank text
ZeroAnalysis ==
    [ok |-> TRUE, word_count |-> 0, character_count |-> 0, sentence_count |-> 0,
     paragraph_count |-> 0, avg_words_per_sentence |-> Number(0, 1),
     readability_score |-> Number(0, 1), fluency_score |-> Number(0, 1)]

\* what calculate_error_rate returns for an original without words
DefaultErrorRate ==
    [ok |-> TRUE, error_rate |-> Number(0, 1), accuracy_rate |-> Number(100, 1),
     errors_corrected |-> 0]

\* C14: no function of MetricsCalculator divides by zero; calculate_readability
\* and calculate_fluency return 0 and get_detailed_analysis all-zero fields for
\* a blank text; calculate_readability returns 0 when there is no sentence or no
\* word; calculate_accuracy returns 100 when the original is blank or a word
\* list compared is empty; calculate_typing_speed returns 0 and 0 when the time
\* is not positive; calculate_error_rate returns its default when the original
\* has no word.
C14_NoDivisionByZero ==
    pc = "done" =>
        /\ returned.value.ok
        /\ (returned.fn \in {"calculate_readability", "calculate_fluency"} /\ IsBlank(text))
               => returned.value = Number(0, 1)
        /\ (returned.fn = "get_detailed_analysis" /\ IsBlank(text))
               => returned.value = ZeroAnalysis
        /\ (returned.fn = "calculate_readability"
              /\ (CountSentences(text) = 0 \/ CountWords(text) = 0))
               => returned.value = Number(0, 1)
        /\ (returned.fn = "calculate_accuracy"
              /\ (IsBlank(original) \/ IsBlank(corrected)))
               => returned.value = Number(100, 1)
        /\ (returned.fn = "calculate_typing_speed" /\ returned.time_taken <= 0)
               => (returned.value.wpm = Number(0, 1) /\ returned.value.cpm = Number(0, 1))
        /\ (returned.fn = "calculate_error_rate" /\ IsBlank(original))
               => returned.value = DefaultErrorRate

\* C14 witness: calculate_readability returned for a text that is not blank,
\* has a word and has no sentence
C14_Witness ==
    /\ pc = "done"
    /\ returned.fn = "calculate_readability"
    /\ ~IsBlank(text)
    /\ CountWords(text) > 0
    /\ CountSentences(text) = 0

\* the positions, within the shorter of the two word lists, where the words
\* of the original and of the corrected text differ
Mismatches(orig, corr) ==
    {k \in 1..Min(Len(Split(orig)), Len(Split(corr))) : Split(orig)[k] # Split(corr)[k]}

\* the number x is min(100, n * 100 / d)
IsPercentage(x, n, d) ==
    /\ x.ok
    /\ IF n >= d THEN x.num = 100 * x.den ELSE x.num * d = n * 100 * x.den

\* calculate_accuracy returned for two texts that both have words
AccuracyDone ==
    /\ pc = "done"
    /\ returned.fn = "calculate_accuracy"
    /\ ~IsBlank(original)
    /\ ~IsBlank(corrected)

\* C15: calculate_accuracy returns the number of positions where the words of
\* the two truncated lists differ, divided by the number of words of the
\* original text, times 100 and capped at 100, also when the corrected text
\* has fewer words than the original.
C15_DivisorIsOriginalCount ==
    AccuracyDone =>
        IsPercentage(returned.value, Cardinality(Mismatches(original, corrected)),
                     Len(Split(original)))

\* C15, what the code does: the divisor is the length of the truncated list,
\* which is the number of words of the shorter text
C15_DivisorIsShorterCount ==
    AccuracyDone =>
        IsPercentage(returned.value, Cardinality(Mismatches(original, corrected)),
                     Min(Len(Split(original)), Len(Split(corrected))))

\* C15 witness: calculate_accuracy returned for a corrected text with fewer
\* words than the original and a word that differs
C15_Witness ==
    /\ AccuracyDone
    /\ Len(Split(corrected)) < Len(Split(original))
    /\ Mismatches(original, corrected) # {}

-----------------------------------------------------------------------------
(* The session of app.py.  Every event of the user runs the script main    *)
(* once with the values of the widgets: text is the text area,             *)
(* correction_types and confidence_threshold the sidebar, and              *)
(* session_state holds st.session_state and the selected correction mode.  *)

\* the longest history kept in the model
MaxHistory == 6

\* the texts typed in the text area
AppTexts == {<<>>, Word.teh, Word.helo, Word.the \o <<".">>}

Modes == {"Real-time", "On-demand"}

\* a faulty processing that assigns the new corrections to the history
Process_Assigning(ss, input_text) ==
    LET r == ss.correction_engine[input_text]
    IN  [ss EXCEPT !.corrected_text = r.text,
                   !.correction_history =
                       IF r.text # input_text THEN ss.processor[<<input_text, r.text>>]
                       ELSE @]

\* the processing both modes share: correct_text of the session's engine,
\* then the history extended by find_differences of the session's processor
\* when the text changed
Process(ss, input_text) ==
    LET r == ss.correction_engine[input_text]
    IN  [ss EXCEPT !.corrected_text = r.text,
                   !.correction_history =
                       IF r.text # input_text
                       THEN @ \o ss.processor[<<input_text, r.text>>]
                       ELSE @]

\* st.session_state.correction_history[-5:]
RecentCorrections(history) ==
    SubSeq(history, Max(1, Len(history) - 4), Len(history))

\* the session after main up to the display, for the text area input_text,
\* the mode correction_mode and the Apply Corrections button apply
Processed(ss, input_text, correction_mode, apply) ==
    LET changed == input_text # <<>> /\ input_text # ss.original_text
        ss1 == IF changed THEN [ss EXCEPT !.original_text = input_text] ELSE ss
        \* the two modes exclude each other, so at most one of the two
        \* processings runs
        ss2 == IF \/ changed /\ correction_mode = "Real-time"
                  \/ correction_mode = "On-demand" /\ apply /\ input_text # <<>>
               THEN Process(ss1, input_text) ELSE ss1
    IN  [ss2 EXCEPT !.correction_mode = correction_mode]

\* one run of main; clear is the Clear History button, which is there when
\* the history is not empty and ends the run with st.rerun()
RunScript(input_text, correction_mode, apply, clear) ==
    \E ss \in {Processed(session_state, input_text, correction_mode, apply)} :
    LET cleared == clear /\ ss.correction_history # <<>>
    IN  /\ Len(ss.correction_history) <= MaxHistory
        /\ text' = input_text
        /\ returned' = (IF ss.original_text # <<>> /\ ss.corrected_text # <<>>
                        THEN RecentCorrections(ss.correction_history) ELSE <<>>)
        /\ session_state' = (IF cleared
                             THEN [ss EXCEPT !.correction_history = <<>>,
                                             !.original_text = <<>>,
                                             !.corrected_text = <<>>]
                             ELSE ss)
        /\ pc' = (IF cleared THEN "rerun" ELSE "idle")
        /\ UNCHANGED <<correction_types, confidence_threshold, blob, corrected_text,
                       suggestions, calls, processorVars, distanceVars>>

\* the session the first run starts with: empty texts and history, and the
\* two objects the runs call, each held as what its method returns on the
\* texts of the text area: correct_text with the settings the sidebar starts
\* with, find_differences on a text and its correction
InitApp ==
    /\ pc = "idle"
    /\ text = <<>>
    /\ correction_types = Options
    /\ confidence_threshold = 70
    /\ blob = "identity"
    /\ corrected_text = <<>>
    /\ suggestions = <<>>
    /\ calls = <<>>
    /\ ProcessorIdle
    /\ DistanceIdle
    /\ returned = <<>>
    /\ session_state =
           [original_text |-> <<>>, corrected_text |-> <<>>,
            correction_history |-> <<>>, correction_mode |-> "Real-time",
            correction_engine |->
                [t \in AppTexts |-> CorrectText(t, Options, 70, "identity")],
            processor |->
                [p \in {<<t, CorrectText(t, Options, 70, "identity").text>> :
                            t \in AppTexts} |-> FindDifferences(p[1], p[2])]]

\* the user edits the text area
InputChange ==
    /\ pc = "idle"
    /\ \E t \in AppTexts \ {text} :
           RunScript(t, session_state.correction_mode, FALSE, FALSE)

\* the user selects the other correction mode
ModeChange ==
    /\ pc = "idle"
    /\ \E m \in Modes \ {session_state.correction_mode} : RunScript(text, m, FALSE, FALSE)

\* the user presses Apply Corrections, which is there in On-demand mode
ApplyCorrections ==
    /\ pc = "idle"
    /\ session_state.correction_mode = "On-demand"
    /\ RunScript(text, session_state.correction_mode, TRUE, FALSE)

\* the user presses Clear History, which is there when the history is not empty
ClearHistory ==
    /\ pc = "idle"
    /\ session_state.correction_history # <<>>
    /\ RunScript(text, session_state.correction_mode, FALSE, TRUE)

\* a run with no change of a widget: the run st.rerun() asks for, or one a
\* button without effect on the session starts
Rerun ==
    /\ pc \in {"idle", "rerun"}
    /\ RunScript(text, session_state.correction_mode, FALSE, FALSE)

NextApp == InputChange \/ ModeChange \/ ApplyCorrections \/ ClearHistory \/ Rerun

SpecApp == InitApp /\ [][NextApp]_vars

\* what a step may do to the history: leave it, extend it by the records of
\* find_differences for the text area and a corrected text that differs from
\* it, or, when Clear History was pressed, empty it together with the
\* original and the corrected text
HistoryStep ==
    LET history == session_state.correction_history
        after == session_state'
    IN  \/ after.correction_history = history
        \/ /\ after.corrected_text # text'
           /\ after.correction_history
                = history \o FindDifferences(text', after.corrected_text)
        \/ /\ pc' = "rerun"
           /\ after.correction_history = <<>>
           /\ after.original_text = <<>>
           /\ after.corrected_text = <<>>

====
